---- MODULE Spec2Model ----
(***************************************************************************)
(* Model of the migration / seed command line tool (src/bin/db_cli.rs) and *)
(* of the ledger access layer it drives (src/db/mod.rs).                   *)
(*                                                                         *)
(* Text (file names, ids, names) is a sequence of one-character strings,   *)
(* compared byte by byte as Rust compares String and Path values.          *)
(***************************************************************************)
EXTENDS Integers, Sequences, FiniteSets, TLC

VARIABLES
    dir,        \* dir[kind]: the file names present in src/db/<kind>
    ledger,     \* ledger[table]: rows of _migrations / _seeders, in insertion order
    POOL,       \* POOL[p]: the process-wide OnceLock<PgPool> of process p
    pc,         \* pc[p]: position of process (or task) p in the function it runs
    command,    \* command[p]: the command line argument of the invocation
    applied,    \* applied[p]: the Vec<String> of ids read at the start of the run
    files,      \* files[p]: the part of the file list the loop has not visited yet
    cur,        \* cur[p]: the file (path, id, name) the loop body is working on
    result,     \* result[p]: what the invocation returned
    local,      \* local[p]: the PgPool that init_pool has connected and not yet set
    log,        \* history: what the current invocation executed, marked and printed
    led0,       \* history: the ledger of the run's kind when the invocation started
    body,       \* history: body[kind][f], what became of forward file f's body
    torn        \* history: torn[kind], a run stopped between a body and its ledger update

vars == <<dir, ledger, POOL, pc, command, applied, files, cur, result, local,
          log, led0, body, torn>>

(***************************************************************************)
(* Bounds of the model.                                                    *)
(***************************************************************************)
MaxFiles == 4

Procs == {1}

(***************************************************************************)
(* Text.                                                                   *)
(***************************************************************************)
Chars == {"0", "1", "2", "_", ".", "a", "b", "c", "d", "l", "n", "o", "p", "q", "s", "u", "w"}

Ascii == [ch \in Chars |->
    CASE ch = "0" -> 48 [] ch = "1" -> 49 [] ch = "2" -> 50
      [] ch = "." -> 46 [] ch = "_" -> 95
      [] ch = "a" -> 97 [] ch = "b" -> 98 [] ch = "c" -> 99 [] ch = "d" -> 100
      [] ch = "l" -> 108 [] ch = "n" -> 110 [] ch = "o" -> 111 [] ch = "p" -> 112
      [] ch = "q" -> 113 [] ch = "s" -> 115 [] ch = "u" -> 117 [] ch = "w" -> 119]

Min(a, b) == IF a < b THEN a ELSE b

\* Ord for str / Path: lexicographic on bytes, a proper prefix sorts first.
str_lt(a, b) ==
    \E i \in 1..(Min(Len(a), Len(b)) + 1) :
        /\ \A j \in 1..(i - 1) : a[j] = b[j]
        /\ \/ i > Len(a) /\ i <= Len(b)
           \/ i <= Len(a) /\ i <= Len(b) /\ Ascii[a[i]] < Ascii[b[i]]

starts_with_at(s, i, pat) ==
    /\ i + Len(pat) - 1 <= Len(s)
    /\ \A j \in 1..Len(pat) : s[i + j - 1] = pat[j]

ends_with(s, suffix) ==
    /\ Len(suffix) <= Len(s)
    /\ starts_with_at(s, Len(s) - Len(suffix) + 1, suffix)

RECURSIVE split_from(_, _, _)
\* str::split(sep): the pieces between separators, empty pieces included.
split_from(s, i, piece) ==
    IF i > Len(s) THEN <<piece>>
    ELSE IF s[i] = "_" THEN <<piece>> \o split_from(s, i + 1, <<>>)
    ELSE split_from(s, i + 1, Append(piece, s[i]))

split(s) == split_from(s, 1, <<>>)

RECURSIVE join(_)
\* [&str]::join("_")
join(parts) ==
    IF Len(parts) = 0 THEN <<>>
    ELSE IF Len(parts) = 1 THEN parts[1]
    ELSE parts[1] \o <<"_">> \o join(Tail(parts))

RECURSIVE replace_from(_, _, _)
\* str::replace(pat, ""): every non-overlapping match, left to right, removed.
replace_from(s, i, pat) ==
    IF i > Len(s) THEN <<>>
    ELSE IF starts_with_at(s, i, pat) THEN replace_from(s, i + Len(pat), pat)
    ELSE <<s[i]>> \o replace_from(s, i + 1, pat)

replace(s, pat) == replace_from(s, 1, pat)

UpSuffix == <<"_", "u", "p", ".", "s", "q", "l">>
DownSuffix == <<"_", "d", "o", "w", "n", ".", "s", "q", "l">>

Range(v) == {v[i] : i \in DOMAIN v}

RECURSIVE SortSet(_)
SortSet(S) ==
    IF S = {} THEN <<>>
    ELSE LET m == CHOOSE x \in S : \A y \in S : x = y \/ str_lt(x, y)
         IN <<m>> \o SortSet(S \ {m})

\* Vec<PathBuf>::sort() on the distinct paths of one directory.
sort(v) == SortSet(Range(v))

RECURSIVE reverse(_)
reverse(v) == IF v = <<>> THEN <<>> ELSE Append(reverse(Tail(v)), Head(v))

(***************************************************************************)
(* The world: kinds, and the file names that may appear in a directory.    *)
(***************************************************************************)
Kinds == {"migrations", "seeders"}

FilePool(kind) ==
    IF kind = "migrations"
    THEN { <<"1", "_", "a">> \o UpSuffix,      <<"1", "_", "a">> \o DownSuffix,
           <<"2", "_", "b">> \o UpSuffix,      <<"2", "_", "b">> \o DownSuffix,
           <<"1", "0", "_", "c">> \o UpSuffix, <<"1", "0", "_", "c">> \o DownSuffix,
           <<"1", "_", "d">> \o UpSuffix }
    ELSE { <<"1", "_", "a">> \o UpSuffix,      <<"1", "_", "a">> \o DownSuffix }

(***************************************************************************)
(* src/bin/db_cli.rs: pure helpers.                                        *)
(***************************************************************************)
NoParse == [some |-> FALSE, id |-> <<>>, name |-> <<>>]

parse_id_name_from_file(path) ==
    LET parts == split(path) IN
    IF Len(parts) < 2 THEN NoParse
    ELSE [some |-> TRUE,
          id   |-> parts[1],
          name |-> replace(replace(join(Tail(parts)), UpSuffix), DownSuffix)]

\* Faulty variant: the listing comes back in the wrong order.
list_sql_files_unsorted(kind, suffix) ==
    reverse(SortSet({f \in dir[kind] : ends_with(f, suffix)}))

\* The entries of src/db/<kind> whose name ends with the suffix, sorted.
list_sql_files(kind, suffix) ==
    SortSet({f \in dir[kind] : ends_with(f, suffix)})

contains(v, x) == \E i \in DOMAIN v : v[i] = x

(***************************************************************************)
(* src/db/mod.rs: the two ledger tables.                                   *)
(***************************************************************************)
Tables == {"_migrations", "_seeders"}

\* Faulty variant: both kinds are sent to the migrations table.
TableOf_shared(kind) == "_migrations"

\* run_pending / undo_last pick the table by comparing kind with "migrations".
TableOf(kind) == IF kind = "migrations" THEN "_migrations" ELSE "_seeders"

\* Faulty variant: the SELECT comes back empty.
applied_ids_empty(table) == <<>>

\* SELECT id FROM <table>
applied_ids(table) == [i \in 1..Len(ledger[table]) |-> ledger[table][i].id]

\* id TEXT PRIMARY KEY: an INSERT of a present id is refused.
duplicate_key(rows, id) == \E i \in DOMAIN rows : rows[i].id = id

\* Faulty variant: the INSERT reports success and stores nothing.
mark_applied_lost(rows, id, name) == rows

\* INSERT INTO <table> (id, name) VALUES ($1, $2)
mark_applied(rows, id, name) == Append(rows, [id |-> id, name |-> name])

\* Faulty variant: the DELETE has lost its WHERE clause.
unmark_applied_all(rows, id) == <<>>

\* DELETE FROM <table> WHERE id = $1
unmark_applied(rows, id) == SelectSeq(rows, LAMBDA r : r.id # id)

(***************************************************************************)
(* src/bin/db_cli.rs: main's dispatch.                                     *)
(***************************************************************************)
RunCommands == {"migrate", "seed", "migrate:undo", "seed:undo"}

KindOf(cmd) == IF cmd \in {"migrate", "migrate:undo"} THEN "migrations" ELSE "seeders"
OpOf(cmd) == IF cmd \in {"migrate", "seed"} THEN "run_pending" ELSE "undo_last"

kind(p) == KindOf(command[p])
op(p) == OpOf(command[p])
table(p) == TableOf(kind(p))

(***************************************************************************)
(* History bookkeeping (not program state).                                *)
(***************************************************************************)
NoFile == [path |-> <<>>, id |-> <<>>, name |-> <<>>]

ForwardPool == [k \in Kinds |-> {f \in FilePool(k) : ends_with(f, UpSuffix)}]
ReversePool == [k \in Kinds |-> {f \in FilePool(k) : ends_with(f, DownSuffix)}]
ForwardFiles(k) == ForwardPool[k]

Event(ev, file, was) == [ev |-> ev, path |-> file.path, id |-> file.id, was |-> was]

Quiet == \A p \in Procs : pc[p] = "idle"

(***************************************************************************)
(* Initial state: empty directories, empty tables, no process running.     *)
(***************************************************************************)
Init ==
    /\ dir = [k \in Kinds |-> {}]
    /\ ledger = [t \in Tables |-> <<>>]
    /\ POOL = [p \in Procs |-> "unset"]
    /\ pc = [p \in Procs |-> "idle"]
    /\ command = [p \in Procs |-> ""]
    /\ applied = [p \in Procs |-> <<>>]
    /\ files = [p \in Procs |-> <<>>]
    /\ cur = [p \in Procs |-> NoFile]
    /\ result = [p \in Procs |-> "none"]
    /\ local = [p \in Procs |-> "none"]
    /\ log = [p \in Procs |-> <<>>]
    /\ led0 = [p \in Procs |-> <<>>]
    /\ body = [k \in Kinds |-> [f \in ForwardFiles(k) |-> "none"]]
    /\ torn = [k \in Kinds |-> FALSE]

(***************************************************************************)
(* The environment: somebody puts a file into src/db/<kind>.               *)
(***************************************************************************)
AddFile ==
    \E k \in Kinds : \E f \in FilePool(k) \ dir[k] :
        /\ Quiet
        /\ Cardinality(dir["migrations"]) + Cardinality(dir["seeders"]) < MaxFiles
        /\ dir' = [dir EXCEPT ![k] = @ \cup {f}]
        /\ UNCHANGED <<ledger, local, POOL, pc, command, applied, files, cur, result,
                       log, led0, body, torn>>

(***************************************************************************)
(* One invocation of the tool, step by step.  Every await (and every `?`)  *)
(* of run_pending / undo_last is a step that may fail and end the run.     *)
(***************************************************************************)
\* `?` and the final Ok(()): the value leaves the function, main returns it,
\* the process ends.
Return(p, res) ==
    /\ pc' = [pc EXCEPT ![p] = "done"]
    /\ result' = [result EXCEPT ![p] = res]

Goto(p, label) ==
    /\ pc' = [pc EXCEPT ![p] = label]
    /\ UNCHANGED result

\* main, lines 18-25: a run command starts run_pending or undo_last.
Main(p) ==
    \E cmd \in RunCommands :
        /\ pc[p] = "idle"
        /\ command' = [command EXCEPT ![p] = cmd]
        /\ pc' = [pc EXCEPT ![p] = "init_pool"]
        /\ result' = [result EXCEPT ![p] = "none"]
        /\ log' = [log EXCEPT ![p] = <<>>]
        /\ led0' = [led0 EXCEPT ![p] = ledger[TableOf(KindOf(cmd))]]
        /\ UNCHANGED <<dir, local, ledger, POOL, applied, files, cur, body, torn>>

\* db::init_pool().await.map_err(to_io_err)?
init_pool(p) ==
    /\ pc[p] = "init_pool"
    /\ IF POOL[p] = "set"
       THEN Goto(p, "ensure") /\ UNCHANGED POOL
       ELSE \E connected \in BOOLEAN :
              IF connected
              THEN POOL' = [POOL EXCEPT ![p] = "set"] /\ Goto(p, "ensure")
              ELSE Return(p, "ConnectionError") /\ UNCHANGED POOL
    /\ UNCHANGED <<dir, local, ledger, command, applied, files, cur, log, led0,
                   body, torn>>

\* db::ensure_migrations_tables().await.map_err(to_io_err)?
ensure_migrations_tables(p) ==
    /\ pc[p] = "ensure"
    /\ \E ok \in BOOLEAN :
          IF ok THEN Goto(p, "applied") ELSE Return(p, "StoreError")
    /\ UNCHANGED <<dir, local, ledger, POOL, command, applied, files, cur, log, led0,
                   body, torn>>

\* let applied = applied_migration_ids() / applied_seed_ids()
read_applied(p) ==
    /\ pc[p] = "applied"
    /\ \E ok \in BOOLEAN :
          IF ok
          THEN applied' = [applied EXCEPT ![p] = applied_ids(table(p))]
               /\ Goto(p, "list")
          ELSE Return(p, "StoreError") /\ UNCHANGED applied
    /\ UNCHANGED <<dir, local, ledger, POOL, command, files, cur, log, led0,
                   body, torn>>

\* Faulty variant: the last forward file is left out.
run_pending_files_but_last(p) ==
    LET all == list_sql_files(kind(p), UpSuffix)
    IN IF all = <<>> THEN <<>> ELSE SubSeq(all, 1, Len(all) - 1)

\* run_pending: let files = list_sql_files(kind, "_up.sql")?
run_pending_files(p) == list_sql_files(kind(p), UpSuffix)

\* Faulty variant: the list is not reversed.
undo_last_files_ascending(p) == sort(list_sql_files(kind(p), DownSuffix))

\* Faulty variant: the forward files are listed instead of the reverse files.
undo_last_files_forward(p) == reverse(sort(list_sql_files(kind(p), UpSuffix)))

\* undo_last: list_sql_files(kind, "_down.sql")?, files.sort(), files.reverse()
undo_last_files(p) == reverse(sort(list_sql_files(kind(p), DownSuffix)))

list_files(p) ==
    /\ pc[p] = "list"
    /\ \E ok \in BOOLEAN :
          IF ok
          THEN files' = [files EXCEPT ![p] =
                            IF op(p) = "run_pending" THEN run_pending_files(p)
                            ELSE undo_last_files(p)]
               /\ Goto(p, "loop")
          ELSE Return(p, "IoError") /\ UNCHANGED files
    /\ UNCHANGED <<dir, local, ledger, POOL, command, applied, cur, log, led0,
                   body, torn>>

\* Faulty variant: the ledger check is lost.
run_pending_skips_never(p, id) == FALSE

\* Faulty variant: the id is looked up in the table, not in the snapshot.
run_pending_skips_live(p, id) == duplicate_key(ledger[table(p)], id)

\* run_pending: `if applied.contains(&id) { continue; }`
run_pending_skips(p, id) == contains(applied[p], id)

\* Faulty variant: the ledger check is lost.
undo_last_skips_never(p, id) == FALSE

\* undo_last: `if !applied.contains(&id) { continue; }`
undo_last_skips(p, id) == ~contains(applied[p], id)

\* The head of `for file in files`: end of the list, a skipped file, or a
\* file whose body is to be read and executed.
loop(p) ==
    /\ pc[p] = "loop"
    /\ IF files[p] = <<>>
       THEN Return(p, "ok") /\ UNCHANGED <<files, cur>>
       ELSE LET file == Head(files[p])
                v == parse_id_name_from_file(file)
            IN /\ files' = [files EXCEPT ![p] = Tail(@)]
               /\ IF \/ ~v.some
                     \/ op(p) = "run_pending" /\ run_pending_skips(p, v.id)
                     \/ op(p) = "undo_last" /\ undo_last_skips(p, v.id)
                  THEN Goto(p, "loop") /\ UNCHANGED cur
                  ELSE /\ cur' = [cur EXCEPT ![p] =
                                     [path |-> file, id |-> v.id, name |-> v.name]]
                       /\ Goto(p, "execute")
    /\ UNCHANGED <<dir, local, ledger, POOL, command, applied, log, led0, body,
                   torn>>

\* What a successful body does to the history of the forward bodies.
BodyAfter(p) ==
    IF op(p) = "run_pending"
    THEN [body EXCEPT ![kind(p)][cur[p].path] = "executed"]
    ELSE [body EXCEPT ![kind(p)] =
             [f \in ForwardFiles(kind(p)) |->
                 IF parse_id_name_from_file(f).id = cur[p].id THEN "none" ELSE @[f]]]

\* Faulty variant: the error is swallowed and the loop goes on.
execute_failed_ignored(p, err) ==
    /\ pc' = [pc EXCEPT ![p] = "loop"]
    /\ UNCHANGED result

\* The `?` after read_sql and execute_sql: the error ends the run.
execute_failed(p, err) == Return(p, err)

\* let sql = read_sql(&file)?; db::execute_sql(&sql).await.map_err(to_io_err)?
execute(p) ==
    /\ pc[p] = "execute"
    /\ \E outcome \in {"ok", "IoError", "StoreError"} :
          /\ IF outcome = "ok"
             THEN /\ Goto(p, IF op(p) = "run_pending" THEN "mark" ELSE "unmark")
                  /\ body' = BodyAfter(p)
             ELSE execute_failed(p, outcome) /\ UNCHANGED body
          /\ log' = [log EXCEPT ![p] =
                IF outcome = "IoError" THEN @
                ELSE Append(@, Event(IF outcome = "ok" THEN "execute" ELSE "execute_err",
                                     cur[p],
                                     IF op(p) = "run_pending"
                                     THEN body[kind(p)][cur[p].path] ELSE "reverse"))]
    /\ UNCHANGED <<dir, local, ledger, POOL, command, applied, files, cur, led0,
                   torn>>

\* run_pending: mark_migration_applied / mark_seed_applied, then println!
mark(p) ==
    /\ pc[p] = "mark"
    /\ IF duplicate_key(ledger[table(p)], cur[p].id)
       THEN /\ Return(p, "DuplicateIdError")
            /\ torn' = [torn EXCEPT ![kind(p)] = TRUE]
            /\ log' = [log EXCEPT ![p] = Append(@, Event("mark_err", cur[p], ""))]
            /\ UNCHANGED <<ledger, body>>
       ELSE \E ok \in BOOLEAN :
              IF ok
              THEN /\ ledger' = [ledger EXCEPT ![table(p)] =
                                    mark_applied(@, cur[p].id, cur[p].name)]
                   /\ log' = [log EXCEPT ![p] =
                         @ \o <<Event("mark", cur[p], ""), Event("print", cur[p], "")>>]
                   /\ body' = [body EXCEPT ![kind(p)][cur[p].path] = "committed"]
                   /\ Goto(p, "loop")
                   /\ UNCHANGED torn
              ELSE /\ Return(p, "StoreError")
                   /\ torn' = [torn EXCEPT ![kind(p)] = TRUE]
                   /\ log' = [log EXCEPT ![p] = Append(@, Event("mark_err", cur[p], ""))]
                   /\ UNCHANGED <<ledger, body>>
    /\ UNCHANGED <<dir, local, POOL, command, applied, files, cur, led0>>

\* Faulty variant: the `break` is missing, the loop goes on to the next file.
undo_last_no_break(p) ==
    /\ pc' = [pc EXCEPT ![p] = "loop"]
    /\ UNCHANGED result

\* undo_last: `break;` leaves the loop, the function returns Ok(()).
undo_last_break(p) == Return(p, "ok")

\* undo_last: unmark_migration_applied / unmark_seed_applied, println!, break
unmark(p) ==
    /\ pc[p] = "unmark"
    /\ \E ok \in BOOLEAN :
          IF ok
          THEN /\ ledger' = [ledger EXCEPT ![table(p)] = unmark_applied(@, cur[p].id)]
               /\ log' = [log EXCEPT ![p] =
                     @ \o <<Event("unmark", cur[p], ""), Event("print", cur[p], "")>>]
               /\ undo_last_break(p)
               /\ UNCHANGED torn
          ELSE /\ Return(p, "StoreError")
               /\ torn' = [torn EXCEPT ![kind(p)] = TRUE]
               /\ log' = [log EXCEPT ![p] = Append(@, Event("unmark_err", cur[p], ""))]
               /\ UNCHANGED ledger
    /\ UNCHANGED <<dir, local, POOL, command, applied, files, cur, led0, body>>

\* The process is killed inside the loop: before a body is executed, between
\* the execution and the ledger update, or after the ledger update.
Crash(p) ==
    /\ pc[p] \in {"loop", "execute", "mark", "unmark"}
    /\ Return(p, "crashed")
    /\ torn' = [torn EXCEPT ![kind(p)] = @ \/ pc[p] \in {"mark", "unmark"}]
    /\ UNCHANGED <<dir, local, ledger, POOL, command, applied, files, cur, log, led0,
                   body>>

\* The process ends; its statics and locals are gone.
Exit(p) ==
    /\ pc[p] = "done"
    /\ pc' = [pc EXCEPT ![p] = "idle"]
    /\ POOL' = [POOL EXCEPT ![p] = "unset"]
    /\ command' = [command EXCEPT ![p] = ""]
    /\ applied' = [applied EXCEPT ![p] = <<>>]
    /\ files' = [files EXCEPT ![p] = <<>>]
    /\ cur' = [cur EXCEPT ![p] = NoFile]
    /\ result' = [result EXCEPT ![p] = "none"]
    /\ log' = [log EXCEPT ![p] = <<>>]
    /\ led0' = [led0 EXCEPT ![p] = <<>>]
    /\ UNCHANGED <<dir, local, ledger, body, torn>>

Next ==
    \/ AddFile
    \/ \E p \in Procs : Main(p)
    \/ \E p \in Procs : init_pool(p)
    \/ \E p \in Procs : ensure_migrations_tables(p)
    \/ \E p \in Procs : read_applied(p)
    \/ \E p \in Procs : list_files(p)
    \/ \E p \in Procs : loop(p)
    \/ \E p \in Procs : execute(p)
    \/ \E p \in Procs : mark(p)
    \/ \E p \in Procs : unmark(p)
    \/ \E p \in Procs : Crash(p)
    \/ \E p \in Procs : Exit(p)

Spec == Init /\ [][Next]_vars

(***************************************************************************)
(* Vocabulary of the properties.                                           *)
(***************************************************************************)
Ids(rows) == {rows[i].id : i \in DOMAIN rows}
Parsed == [f \in FilePool("migrations") \cup FilePool("seeders") |->
              parse_id_name_from_file(f)]
IdOf(f) == Parsed[f].id

ForwardIn(k) == dir[k] \cap ForwardPool[k]
ReverseIn(k) == dir[k] \cap ReversePool[k]
ForwardIds(k) == {IdOf(f) : f \in ForwardIn(k)}
ReverseIds(k) == {IdOf(f) : f \in ReverseIn(k)}

Running(p, o) == pc[p] # "idle" /\ op(p) = o
Finished(p, o) == pc[p] = "done" /\ op(p) = o

\* The run was ended from outside: the store or the file system refused a
\* call, or the process was killed.
Outage(p) == result[p] \in {"ConnectionError", "StoreError", "IoError", "crashed"}

\* Positions of the log where a body was handed to the store.
Executions(p) == {j \in DOMAIN log[p] : log[p][j].ev \in {"execute", "execute_err"}}
Positions(p, ev) == {j \in DOMAIN log[p] : log[p][j].ev = ev}

\* The forward files an Apply run found pending when it started.
Pending(p) == {f \in ForwardIn(kind(p)) : IdOf(f) \notin Ids(led0[p])}

proper_prefix(a, b) == Len(a) < Len(b) /\ \A j \in 1..Len(a) : a[j] = b[j]
prefix_free(a, b) == ~proper_prefix(a, b) /\ ~proper_prefix(b, a)

(***************************************************************************)
(* C1. Idempotency of Apply: an Apply run that returns Ok leaves the id of *)
(* every forward file in the ledger, and an Apply run started on such a    *)
(* ledger (the second of two runs in succession on an unchanged directory) *)
(* never reaches a body or an insert: it executes nothing, leaves the      *)
(* ledger as it was, and returns Ok unless the store, the file system or   *)
(* the process itself is cut off before the loop.                          *)
(***************************************************************************)
C1_Idempotent ==
    \A p \in Procs :
        Running(p, "run_pending") =>
            /\ (pc[p] = "done" /\ result[p] = "ok")
                  => ForwardIds(kind(p)) \subseteq Ids(ledger[table(p)])
            /\ ForwardIds(kind(p)) \subseteq Ids(led0[p])
                  => /\ pc[p] \notin {"execute", "mark"}
                     /\ log[p] = <<>>
                     /\ ledger[table(p)] = led0[p]
                     /\ pc[p] = "done" => (result[p] = "ok" \/ Outage(p))

C1_Witness ==
    \E p \in Procs :
        /\ Finished(p, "run_pending")
        /\ Cardinality(ForwardIn(kind(p))) >= 2
        /\ ForwardIds(kind(p)) \subseteq Ids(led0[p])
        /\ result[p] = "ok"
        /\ log[p] = <<>>

(***************************************************************************)
(* C2. Ordering of Apply.  As claimed: whenever a body B is handed to the  *)
(* store, every pending change-set A with A.id < B.id (ids compared as the *)
(* strings they are) has been executed and marked applied before.          *)
(***************************************************************************)
ExecutedAndMarkedBefore(p, A, j) ==
    \E i \in 1..(j - 1) : \E m \in (i + 1)..(j - 1) :
        /\ log[p][i].ev = "execute" /\ log[p][i].path = A
        /\ log[p][m].ev = "mark" /\ log[p][m].id = IdOf(A)

C2_Original ==
    \A p \in Procs :
        Running(p, "run_pending") =>
            \A j \in Executions(p) : \A A \in Pending(p) :
                str_lt(IdOf(A), log[p][j].id) => ExecutedAndMarkedBefore(p, A, j)

\* C2 as amended: the same, for two ids neither of which is a proper prefix
\* of the other (in particular ids of equal length): the files are visited in
\* ascending file name order, and "10_c_up.sql" sorts before "1_a_up.sql".
C2_Ordering ==
    \A p \in Procs :
        Running(p, "run_pending") =>
            \A j \in Executions(p) : \A A \in Pending(p) :
                (str_lt(IdOf(A), log[p][j].id) /\ prefix_free(IdOf(A), log[p][j].id))
                    => ExecutedAndMarkedBefore(p, A, j)

C2_Witness ==
    \E p \in Procs :
        /\ Finished(p, "run_pending")
        /\ result[p] = "ok"
        /\ \E i, j \in Positions(p, "execute") :
              /\ i < j
              /\ str_lt(log[p][i].id, log[p][j].id)
              /\ prefix_free(log[p][i].id, log[p][j].id)
              /\ log[p][i].path \in Pending(p)

(***************************************************************************)
(* C3. Abort without rollback in Apply: a failed execution or a failed     *)
(* markApplied is the last thing the run does; the run has ended with the  *)
(* error, and every change-set the run marked before is in the ledger.     *)
(***************************************************************************)
C3_AbortNoRollback ==
    \A p \in Procs :
        Running(p, "run_pending") =>
            \A j \in Positions(p, "execute_err") \cup Positions(p, "mark_err") :
                /\ j = Len(log[p])
                /\ pc[p] = "done"
                /\ result[p] \in {"StoreError", "DuplicateIdError"}
                /\ \A i \in Positions(p, "mark") : log[p][i].id \in Ids(ledger[table(p)])

C3_Witness ==
    \E p \in Procs :
        /\ Finished(p, "run_pending")
        /\ Positions(p, "mark") # {}
        /\ Positions(p, "execute_err") # {}
        /\ \E f \in Pending(p) : \A j \in DOMAIN log[p] : log[p][j].path # f

(***************************************************************************)
(* C4. Single-step Undo: one Undo run hands at most one reverse body to    *)
(* the store and removes at most one ledger entry.                         *)
(***************************************************************************)
C4_SingleStepUndo ==
    \A p \in Procs :
        Running(p, "undo_last") =>
            /\ Cardinality(Executions(p)) <= 1
            /\ Cardinality(Positions(p, "unmark")) <= 1
            /\ Len(led0[p]) - Len(ledger[table(p)]) <= 1

C4_Witness ==
    \E p \in Procs :
        /\ Finished(p, "undo_last")
        /\ Cardinality(Ids(led0[p]) \cap ReverseIds(kind(p))) >= 2
        /\ Cardinality(Positions(p, "unmark")) = 1
        /\ Len(ledger[table(p)]) = Len(led0[p]) - 1

(***************************************************************************)
(* C5. The change-set an Undo run reverts.  As claimed: it is the one that *)
(* was marked applied last among those in the ledger (the last row, the    *)
(* rows being kept in insertion order); stated here for the runs in which  *)
(* every applied change-set has its reverse file and no applied id is a    *)
(* proper prefix of another, where nothing but the order of application    *)
(* is left to decide.                                                      *)
(***************************************************************************)
Reverted(p) == Executions(p) \cup Positions(p, "unmark")

C5_Original ==
    \A p \in Procs :
        ( /\ Running(p, "undo_last")
          /\ Ids(led0[p]) \subseteq ReverseIds(kind(p))
          /\ \A x, y \in Ids(led0[p]) : prefix_free(x, y) )
        => \A j \in Reverted(p) : log[p][j].id = led0[p][Len(led0[p])].id

\* C5 as amended: it is the applied change-set whose reverse file name sorts
\* last in the directory, whether or not it was the last to be marked applied.
C5_UndoTarget ==
    \A p \in Procs :
        Running(p, "undo_last") =>
            \A j \in Reverted(p) :
                /\ log[p][j].path \in ReverseIn(kind(p))
                /\ log[p][j].id \in Ids(led0[p])
                /\ \A Q \in ReverseIn(kind(p)) :
                      IdOf(Q) \in Ids(led0[p]) => ~str_lt(log[p][j].path, Q)

C5_Witness ==
    \E p \in Procs :
        /\ Finished(p, "undo_last")
        /\ result[p] = "ok"
        /\ Len(led0[p]) >= 2
        /\ Ids(led0[p]) \subseteq ReverseIds(kind(p))
        /\ \A x, y \in Ids(led0[p]) : prefix_free(x, y)
        /\ \E j \in Positions(p, "unmark") :
              log[p][j].id # led0[p][Len(led0[p])].id

(***************************************************************************)
(* C6. Descending order of successive Undo runs.  As claimed: when every   *)
(* applied id has a reverse file, an Undo run that returns Ok removes the  *)
(* row of the greatest applied id and leaves every other row in place, so  *)
(* that k runs in succession remove the k greatest ids, greatest first.    *)
(***************************************************************************)
MaxId(S) == CHOOSE x \in S : \A y \in S : y = x \/ str_lt(y, x)
Without(rows, id) == SelectSeq(rows, LAMBDA r : r.id # id)

RemovesGreatest(p) ==
    /\ ledger[table(p)] = Without(led0[p], MaxId(Ids(led0[p])))
    /\ \A j \in Reverted(p) : log[p][j].id = MaxId(Ids(led0[p]))
    /\ Cardinality(Positions(p, "unmark")) = 1

C6_Original ==
    \A p \in Procs :
        ( /\ Finished(p, "undo_last") /\ result[p] = "ok"
          /\ led0[p] # <<>>
          /\ Ids(led0[p]) \subseteq ReverseIds(kind(p)) )
        => RemovesGreatest(p)

\* C6 as amended: the same, when no applied id is a proper prefix of another
\* (in particular when the ids have one length): the reverse files are
\* scanned in descending file name order, and "1_a_down.sql" sorts after
\* "10_c_down.sql".
C6_DescendingUndo ==
    \A p \in Procs :
        ( /\ Finished(p, "undo_last") /\ result[p] = "ok"
          /\ led0[p] # <<>>
          /\ Ids(led0[p]) \subseteq ReverseIds(kind(p))
          /\ \A x, y \in Ids(led0[p]) : prefix_free(x, y) )
        => RemovesGreatest(p)

C6_Witness ==
    \E p \in Procs :
        /\ Finished(p, "undo_last") /\ result[p] = "ok"
        /\ Len(led0[p]) >= 2
        /\ Ids(led0[p]) \subseteq ReverseIds(kind(p))
        /\ \A x, y \in Ids(led0[p]) : prefix_free(x, y)
        /\ Len(ledger[table(p)]) = Len(led0[p]) - 1
        /\ MaxId(Ids(led0[p])) \notin Ids(ledger[table(p)])
        /\ led0[p][Len(led0[p])].id # MaxId(Ids(led0[p]))

(***************************************************************************)
(* C7. Meaning of a ledger entry.  As claimed: whenever no run is between  *)
(* a body and its ledger update, also after an aborted run, the ledger     *)
(* holds id X exactly when X's forward body has been executed successfully *)
(* and its reverse body has not been executed successfully since.          *)
(***************************************************************************)
Live(k) == {IdOf(f) : f \in {g \in ForwardFiles(k) : body[k][g] # "none"}}

Settled(k) == \A p \in Procs : ~(pc[p] \in {"mark", "unmark"} /\ kind(p) = k)

RightAfterExecute(p, j) ==
    /\ j > 1
    /\ log[p][j - 1].ev = "execute"
    /\ log[p][j - 1].path = log[p][j].path

C8_SafeRerun ==
    /\ \A k \in Kinds : \A f \in ForwardFiles(k) :
          body[k][f] = "committed" => IdOf(f) \in Ids(ledger[TableOf(k)])
    /\ \A p \in Procs :
          Running(p, "run_pending") =>
            /\ \A j \in Executions(p) : log[p][j].was \in {"none", "executed"}
            /\ \A j \in Positions(p, "execute") :
                  j < Len(log[p]) =>
                     /\ log[p][j + 1].ev \in {"mark", "mark_err"}
                     /\ log[p][j + 1].path = log[p][j].path
            /\ \A j \in Positions(p, "mark_err") : j = Len(log[p])

C8_Witness ==
    \E p \in Procs :
        /\ Finished(p, "run_pending")
        /\ led0[p] # <<>>
        /\ \E j \in Positions(p, "execute") : log[p][j].was = "executed"
        /\ \E f \in ForwardIn(kind(p)) :
              /\ body[kind(p)][f] = "committed"
              /\ IdOf(f) \in Ids(led0[p])

(***************************************************************************)
(* C9. Pair independence: a forward file without a reverse file is applied *)
(* like any other; an Undo run touches only ids that have a reverse file   *)
(* and leaves the ledger entries of the others; an Undo run in which no    *)
(* reverse file matches an applied id executes nothing, changes nothing    *)
(* and returns Ok (unless cut off from outside before the loop).           *)
(***************************************************************************)
C9_PairIndependence ==
    \A p \in Procs :
        /\ (Finished(p, "run_pending") /\ result[p] = "ok") =>
              \A f \in ForwardIn(kind(p)) :
                  IdOf(f) \notin ReverseIds(kind(p)) =>
                     /\ IdOf(f) \in Ids(ledger[table(p)])
                     /\ f \in Pending(p) =>
                           \E j \in Positions(p, "execute") : log[p][j].path = f
        /\ Running(p, "undo_last") =>
              /\ \A j \in DOMAIN log[p] :
                    /\ log[p][j].path \in ReverseIn(kind(p))
                    /\ log[p][j].id \in ReverseIds(kind(p))
              /\ \A x \in Ids(led0[p]) \ ReverseIds(kind(p)) :
                    x \in Ids(ledger[table(p)])
              /\ Ids(led0[p]) \cap ReverseIds(kind(p)) = {} =>
                    /\ pc[p] \notin {"execute", "unmark"}
                    /\ log[p] = <<>>
                    /\ ledger[table(p)] = led0[p]
                    /\ pc[p] = "done" => (result[p] = "ok" \/ Outage(p))

C9_Witness ==
    \E p \in Procs :
        /\ Finished(p, "undo_last") /\ result[p] = "ok"
        /\ led0[p] # <<>>
        /\ ReverseIn(kind(p)) # {}
        /\ Ids(led0[p]) \cap ReverseIds(kind(p)) = {}
        /\ Ids(led0[p]) \subseteq ForwardIds(kind(p))
        /\ ledger[table(p)] = led0[p]

(***************************************************************************)
(* C10. Undo no-op: an Undo run started on an empty ledger never reaches a *)
(* body or a delete, reports no reverted change-set, leaves the ledger     *)
(* empty and returns Ok (unless cut off from outside before the loop),     *)
(* whatever reverse files the directory holds.                             *)
(***************************************************************************)
C10_UndoNoOp ==
    \A p \in Procs :
        (Running(p, "undo_last") /\ led0[p] = <<>>) =>
            /\ pc[p] \notin {"execute", "unmark"}
            /\ log[p] = <<>>
            /\ ledger[table(p)] = <<>>
            /\ pc[p] = "done" => (result[p] = "ok" \/ Outage(p))

C10_Witness ==
    \E p \in Procs :
        /\ Finished(p, "undo_last") /\ result[p] = "ok"
        /\ led0[p] = <<>>
        /\ Cardinality(ReverseIn(kind(p))) >= 2
        /\ log[p] = <<>>

(***************************************************************************)
(* C11. Namespace isolation: a run of one kind reads and changes only that *)
(* kind's ledger.  The ids a run tests its files against are those of its  *)
(* own kind's table as it was when the run started, and every step that    *)
(* changes a table is the mark or unmark step of a run whose kind owns the *)
(* table; so a migration with id X in _migrations never makes a seed with  *)
(* id X count as applied, and conversely.                                  *)
(***************************************************************************)
LedgerOfKind == [k \in Kinds |-> IF k = "migrations" THEN "_migrations" ELSE "_seeders"]

InLoop(p) == pc[p] \in {"loop", "execute", "mark", "unmark"}

C11_NamespaceIsolation ==
    /\ [](\A p \in Procs :
            InLoop(p) =>
               /\ Len(applied[p]) = Len(led0[p])
               /\ \A i \in DOMAIN applied[p] : applied[p][i] = led0[p][i].id
               /\ led0[p] = ledger[LedgerOfKind[kind(p)]]
                     \/ Positions(p, "mark") \cup Positions(p, "unmark") # {})
    /\ [][\A t \in Tables :
            ledger'[t] # ledger[t] =>
               \E p \in Procs :
                  /\ pc[p] \in {"mark", "unmark"}
                  /\ LedgerOfKind[kind(p)] = t]_vars

C11_Witness ==
    \E p \in Procs :
        /\ Finished(p, "run_pending") /\ result[p] = "ok"
        /\ kind(p) = "seeders"
        /\ led0[p] = <<>>
        /\ <<"1">> \in Ids(ledger["_migrations"])
        /\ \E j \in Positions(p, "mark") : log[p][j].id = <<"1">>
        /\ <<"1">> \in Ids(ledger["_seeders"])

(***************************************************************************)
(* Two invocations of `migrate` against one database and one directory.    *)
(* Each is a process of its own (its own POOL, its own snapshot); nothing  *)
(* but the database and the directory is shared, and no lock is taken.     *)
(***************************************************************************)
MaxPairFiles == 2

Runs == {1, 2}

InitPair ==
    /\ dir \in {[k \in Kinds |-> IF k = "migrations" THEN S ELSE {}] :
                  S \in {T \in SUBSET ForwardPool["migrations"] :
                            Cardinality(T) \in 1..MaxPairFiles}}
    /\ ledger = [t \in Tables |-> <<>>]
    /\ POOL = [p \in Runs |-> "unset"]
    /\ pc = [p \in Runs |-> "idle"]
    /\ command = [p \in Runs |-> ""]
    /\ applied = [p \in Runs |-> <<>>]
    /\ files = [p \in Runs |-> <<>>]
    /\ cur = [p \in Runs |-> NoFile]
    /\ result = [p \in Runs |-> "none"]
    /\ local = [p \in Runs |-> "none"]
    /\ log = [p \in Runs |-> <<>>]
    /\ led0 = [p \in Runs |-> <<>>]
    /\ body = [k \in Kinds |-> [f \in ForwardFiles(k) |-> "none"]]
    /\ torn = [k \in Kinds |-> FALSE]

\* main, line 22: "migrate" => run_pending("migrations")
MainMigrate(p) == Main(p) /\ command'[p] = "migrate"

NextPair ==
    \/ \E p \in Runs : MainMigrate(p)
    \/ \E p \in Runs : init_pool(p)
    \/ \E p \in Runs : ensure_migrations_tables(p)
    \/ \E p \in Runs : read_applied(p)
    \/ \E p \in Runs : list_files(p)
    \/ \E p \in Runs : loop(p)
    \/ \E p \in Runs : execute(p)
    \/ \E p \in Runs : mark(p)
    \/ \E p \in Runs : Exit(p)

SpecPair == InitPair /\ [][NextPair]_vars

(***************************************************************************)
(* C12. Two invocations can double-apply.  The state in which both runs    *)
(* have executed the forward body of one change-set is reachable           *)
(* (C12_Witness: both stand between the body and the insert).  Whenever    *)
(* both runs have executed the body of a file, its id was in neither run's *)
(* snapshot; the primary key then lets one insert through at most.         *)
(***************************************************************************)
ExecutedBy(p, f) == \E j \in Positions(p, "execute") : log[p][j].path = f

MarkedBy(p, f) == \E j \in Positions(p, "mark") : log[p][j].path = f

Rows(rows, id) == {i \in DOMAIN rows : rows[i].id = id}

C12_DoubleApply ==
    \A f \in ForwardIn("migrations") :
        (\A p \in Runs : ExecutedBy(p, f)) =>
            /\ \A p \in Runs : ~contains(applied[p], IdOf(f))
            /\ ~(\A p \in Runs : MarkedBy(p, f))
            /\ Cardinality(Rows(ledger["_migrations"], IdOf(f))) <= 1

C12_Witness ==
    /\ \A p \in Runs : pc[p] = "mark"
    /\ cur[1].path = cur[2].path
    /\ \A p \in Runs : ExecutedBy(p, cur[p].path)
    /\ ledger["_migrations"] = <<>>

(***************************************************************************)
(* src/db/mod.rs: init_pool, step by step, called by the tasks of one      *)
(* process.  A task may be suspended at the await of connect, and another  *)
(* thread may run between any two accesses of POOL; a call is therefore    *)
(* four steps: the check of POOL.get(), the connection, POOL.set(pool),    *)
(* and the final POOL.get().                                               *)
(***************************************************************************)
MaxCalls == 2

Tasks == {1, 2}

\* The one process the tasks run in.
Process == CHOOSE p \in Procs : TRUE

PoolEvent(ev, h) == [ev |-> ev, handle |-> h]

\* The calls task t has begun.
Calls(t) == {j \in DOMAIN log[t] : log[t][j].ev \in {"already", "connecting"}}

\* .connect(&database_url).await: each handshake yields a pool of its own.
NewPool(t) == "pool " \o ToString(t) \o "." \o ToString(Cardinality(Calls(t)))

InitPool ==
    /\ dir = [k \in Kinds |-> {}]
    /\ ledger = [t \in Tables |-> <<>>]
    /\ POOL = [p \in Procs |-> "unset"]
    /\ pc = [t \in Tasks |-> "idle"]
    /\ command = [t \in Tasks |-> ""]
    /\ applied = [t \in Tasks |-> <<>>]
    /\ files = [t \in Tasks |-> <<>>]
    /\ cur = [t \in Tasks |-> NoFile]
    /\ result = [t \in Tasks |-> "none"]
    /\ local = [t \in Tasks |-> "none"]
    /\ log = [t \in Tasks |-> <<>>]
    /\ led0 = [t \in Tasks |-> <<>>]
    /\ body = [k \in Kinds |-> [f \in ForwardFiles(k) |-> "none"]]
    /\ torn = [k \in Kinds |-> FALSE]

\* Faulty variant: the early return is lost, every call connects.
pool_get_none(stored) == FALSE

\* `if let Some(pool) = POOL.get()`
pool_get_some(stored) == stored # "unset"

\* Faulty variant: the cell is overwritten by every set.
pool_set_overwrite(stored, pool) == pool

\* OnceLock::set: stores the value if the cell is empty, otherwise keeps the
\* cell (the Err carrying the value back is dropped by `let _ =`).
pool_set(stored, pool) == IF stored = "unset" THEN pool ELSE stored

\* init_pool, lines 25-38: the early return, or the two status lines that
\* precede the connection.
init_pool_get(t) ==
    /\ pc[t] = "idle"
    /\ Cardinality(Calls(t)) < MaxCalls
    /\ IF pool_get_some(POOL[Process])
       THEN /\ result' = [result EXCEPT ![t] = POOL[Process]]
            /\ log' = [log EXCEPT ![t] = Append(@, PoolEvent("already", POOL[Process]))]
            /\ UNCHANGED pc
       ELSE /\ pc' = [pc EXCEPT ![t] = "connect"]
            /\ result' = [result EXCEPT ![t] = "none"]
            /\ log' = [log EXCEPT ![t] = Append(@, PoolEvent("connecting", POOL[Process]))]
    /\ UNCHANGED <<dir, local, ledger, POOL, command, applied, files, cur, led0,
                   body, torn>>

\* init_pool, lines 40-45: PgPoolOptions::new()...connect(&database_url).await?
init_pool_connect(t) ==
    /\ pc[t] = "connect"
    /\ \E connected \in BOOLEAN :
          IF connected
          THEN /\ local' = [local EXCEPT ![t] = NewPool(t)]
               /\ log' = [log EXCEPT ![t] = Append(@, PoolEvent("connected", NewPool(t)))]
               /\ pc' = [pc EXCEPT ![t] = "set"]
               /\ UNCHANGED result
          ELSE /\ result' = [result EXCEPT ![t] = "ConnectionError"]
               /\ log' = [log EXCEPT ![t] = Append(@, PoolEvent("connect_err", "none"))]
               /\ pc' = [pc EXCEPT ![t] = "idle"]
               /\ UNCHANGED local
    /\ UNCHANGED <<dir, ledger, POOL, command, applied, files, cur, led0,
                   body, torn>>

\* init_pool, line 47: let _ = POOL.set(pool);
init_pool_set(t) ==
    /\ pc[t] = "set"
    /\ POOL' = [POOL EXCEPT ![Process] = pool_set(@, local[t])]
    /\ log' = [log EXCEPT ![t] =
                  IF POOL'[Process] # POOL[Process]
                  THEN Append(@, PoolEvent("stored", local[t]))
                  ELSE Append(@, PoolEvent("dropped", local[t]))]
    /\ local' = [local EXCEPT ![t] = "none"]
    /\ pc' = [pc EXCEPT ![t] = "return"]
    /\ UNCHANGED <<dir, ledger, command, applied, files, cur, result, led0,
                   body, torn>>

\* init_pool, line 48: Ok(POOL.get().expect("DB pool initialized"))
init_pool_return(t) ==
    /\ pc[t] = "return"
    /\ result' = [result EXCEPT ![t] =
                     IF POOL[Process] = "unset" THEN "panic" ELSE POOL[Process]]
    /\ log' = [log EXCEPT ![t] = Append(@, PoolEvent("return", result'[t]))]
    /\ pc' = [pc EXCEPT ![t] = "idle"]
    /\ UNCHANGED <<dir, local, ledger, POOL, command, applied, files, cur, led0,
                   body, torn>>

NextPool ==
    \/ \E t \in Tasks : init_pool_get(t)
    \/ \E t \in Tasks : init_pool_connect(t)
    \/ \E t \in Tasks : init_pool_set(t)
    \/ \E t \in Tasks : init_pool_return(t)

SpecPool == InitPool /\ [][NextPool]_vars

\* What the calls of the process did so far, as (task, position) pairs.
PoolEvents(ev) == {<<t, j>> \in Tasks \X (1..(4 * MaxCalls)) :
                      j <= Len(log[t]) /\ log[t][j].ev = ev}

HandleAt(e) == log[e[1]][e[2]].handle

(***************************************************************************)
(* C13. Pool initialised exactly once.  As claimed: within a process the   *)
(* connection handshake is performed once, by the first call; no other     *)
(* call brings a handshake to its end (attempts that fail are not counted  *)
(* here), and every other call returns the handle of that one handshake.   *)
(***************************************************************************)
C13_Original ==
    /\ Cardinality(PoolEvents("connected")) <= 1
    /\ \A e \in PoolEvents("return") : \A c \in PoolEvents("connected") :
          HandleAt(e) = HandleAt(c)

\* C13 as amended: the pool is stored at most once, and once it is stored
\* every call that begins returns the stored handle without a connection. A
\* call that begins while the pool is still unset (after a failed attempt, or
\* while another call is connecting) performs a handshake of its own.
C13_InitialisedOnce ==
    /\ Cardinality(PoolEvents("stored")) <= 1
    /\ \A e \in PoolEvents("stored") : POOL[Process] = HandleAt(e)
    /\ \A e \in PoolEvents("connecting") : HandleAt(e) = "unset"
    /\ \A e \in PoolEvents("already") :
          /\ HandleAt(e) # "unset"
          /\ HandleAt(e) = POOL[Process]
    /\ \A t \in Tasks :
          (pc[t] = "idle" /\ Len(log[t]) > 0 /\ log[t][Len(log[t])].ev = "already")
             => result[t] = POOL[Process]

C13_Witness ==
    \E t \in Tasks : \E i, j \in DOMAIN log[t] :
        /\ i < j
        /\ log[t][i].ev = "return"
        /\ log[t][j].ev = "already"
        /\ log[t][j].handle = log[t][i].handle
        /\ Cardinality(PoolEvents("connecting")) = 1

(***************************************************************************)
(* C19. Concurrent init_pool calls agree on one handle: under every        *)
(* interleaving, calls that both found the pool unset included, the pool   *)
(* is stored at most once and keeps the handle stored; every call that     *)
(* returns Ok returns the stored handle, its own or another call's; a call *)
(* whose connection fails stores nothing and returns the error, so that    *)
(* the pool is unset as long as no call has stored one, and a call that    *)
(* finds it unset connects again.                                          *)
(***************************************************************************)
Failed(t, j) == log[t][j].ev = "connect_err"

C19_ConcurrentInit ==
    /\ Cardinality(PoolEvents("stored")) <= 1
    /\ POOL[Process] = "unset" <=> PoolEvents("stored") = {}
    /\ \A e \in PoolEvents("stored") : POOL[Process] = HandleAt(e)
    /\ \A e \in PoolEvents("return") \cup PoolEvents("already") :
          /\ HandleAt(e) = POOL[Process]
          /\ HandleAt(e) \notin {"unset", "panic"}
    /\ \A t \in Tasks :
          /\ result[t] \in {"none", "ConnectionError", POOL[Process]}
          /\ \A j \in DOMAIN log[t] :
                Failed(t, j) =>
                   /\ log[t][j - 1].ev = "connecting"
                   /\ j < Len(log[t]) => log[t][j + 1].ev \in {"already", "connecting"}
                   /\ j = Len(log[t]) => result[t] = "ConnectionError"
    /\ \A e \in PoolEvents("connecting") : HandleAt(e) = "unset"

C19_Witness ==
    /\ \A t \in Tasks : \E j \in DOMAIN log[t] : log[t][j].ev = "connected"
    /\ Cardinality(PoolEvents("stored")) = 1
    /\ Cardinality(PoolEvents("dropped")) = 1
    /\ \A t \in Tasks : pc[t] = "idle" /\ result[t] = POOL[Process]
    /\ \E t \in Tasks : \E j \in DOMAIN log[t] : Failed(t, j)

(***************************************************************************)
(* parse_id_name_from_file on arbitrary paths: the loop of run_pending is  *)
(* about to visit one path, put together from at most MaxTokens pieces.    *)
(* Paths that list_sql_files would not list are among them, so that the    *)
(* None branch is taken too.                                               *)
(***************************************************************************)
MaxTokens == 4

Tokens == {<<"1">>, <<"a">>, <<"_", "a">>, UpSuffix, DownSuffix}

RECURSIVE Flatten(_)
Flatten(ts) == IF ts = <<>> THEN <<>> ELSE Head(ts) \o Flatten(Tail(ts))

Paths == {Flatten(ts) : ts \in UNION {[1..n -> Tokens] : n \in 0..MaxTokens}}

InitParse ==
    /\ dir = [k \in Kinds |-> {}]
    /\ ledger = [t \in Tables |-> <<>>]
    /\ POOL = [p \in Procs |-> "set"]
    /\ pc = [p \in Procs |-> "loop"]
    /\ command = [p \in Procs |-> "migrate"]
    /\ applied = [p \in Procs |-> <<>>]
    /\ files \in [Procs -> {<<path>> : path \in Paths}]
    /\ cur = [p \in Procs |-> NoFile]
    /\ result = [p \in Procs |-> "none"]
    /\ local = [p \in Procs |-> "none"]
    /\ log = [p \in Procs |-> <<>>]
    /\ led0 = [p \in Procs |-> <<>>]
    /\ body = [k \in Kinds |-> [f \in ForwardFiles(k) |-> "none"]]
    /\ torn = [k \in Kinds |-> FALSE]

NextParse == \E p \in Procs : loop(p)

SpecParse == InitParse /\ [][NextParse]_vars

(***************************************************************************)
(* C14. Filename parsing.  As claimed: for every listed file name (one     *)
(* that ends with the forward or the reverse suffix), the id is the text   *)
(* before the first underscore and the name is the rest of the file name   *)
(* without that suffix; a file name with no underscore yields nothing and  *)
(* is skipped.  File names with an empty id, and those whose rest is       *)
(* shorter than the suffix (1_up.sql), are left out: the claim does not    *)
(* say what their name is.                                                 *)
(***************************************************************************)
HasUnderscore(s) == \E i \in DOMAIN s : s[i] = "_"

FirstUnderscore(s) == CHOOSE i \in DOMAIN s : s[i] = "_" /\ \A j \in 1..(i - 1) : s[j] # "_"

BeforeFirst(s) == SubSeq(s, 1, FirstUnderscore(s) - 1)

AfterFirst(s) == SubSeq(s, FirstUnderscore(s) + 1, Len(s))

SuffixOf(s) == IF ends_with(s, UpSuffix) THEN UpSuffix ELSE DownSuffix

Stripped(s) == SubSeq(s, 1, Len(s) - Len(SuffixOf(s)))

Listed(s) == ends_with(s, UpSuffix) \/ ends_with(s, DownSuffix)

C14_Original ==
    \A p \in Procs :
        /\ pc[p] = "execute" =>
              /\ HasUnderscore(cur[p].path)
              /\ ( /\ Listed(cur[p].path)
                   /\ Listed(AfterFirst(cur[p].path))
                   /\ BeforeFirst(cur[p].path) # <<>> ) =>
                    /\ cur[p].id = BeforeFirst(cur[p].path)
                    /\ cur[p].name = Stripped(AfterFirst(cur[p].path))
        /\ (files[p] # <<>> /\ ~HasUnderscore(Head(files[p]))) =>
              ~parse_id_name_from_file(Head(files[p])).some

(***************************************************************************)
(* main with a command line that starts no run: no argument at all, or a   *)
(* first argument that is none of the commands.                            *)
(***************************************************************************)
NoRunArgs == {"", "frobnicate"}

\* The status the process ends with: std::process::exit(1), or main's
\* io::Result<()> (Ok is 0, Err is reported and becomes 1).
ExitStatus(res) == IF res = "ok" THEN 0 ELSE 1

\* main, lines 13-16 and 26-29: print_usage(), then exit(1) when there is no
\* argument, Ok(()) when the command is unknown.
Usage(p) ==
    \E args \in NoRunArgs :
        /\ pc[p] = "idle"
        /\ command' = [command EXCEPT ![p] = args]
        /\ log' = [log EXCEPT ![p] = <<Event("usage", NoFile, "")>>]
        /\ IF args = "" THEN Return(p, "exit(1)") ELSE Return(p, "ok")
        /\ led0' = [led0 EXCEPT ![p] = <<>>]
        /\ UNCHANGED <<dir, local, ledger, POOL, applied, files, cur, body, torn>>

NextCli ==
    \/ Next
    \/ \E p \in Procs : Usage(p)

SpecCli == Init /\ [][NextCli]_vars

(***************************************************************************)
(* C15. CLI failure status.  As claimed: a command line with no arguments  *)
(* or with an unknown command prints the usage text, runs neither Apply    *)
(* nor Undo, and ends the process with a non-zero status.                  *)
(***************************************************************************)
C15_Original ==
    \A p \in Procs :
        (pc[p] = "done" /\ command[p] \in NoRunArgs) =>
            /\ log[p] = <<Event("usage", NoFile, "")>>
            /\ ExitStatus(result[p]) # 0

(***************************************************************************)
(* C16. Undo failure keeps the ledger: when the selected reverse body      *)
(* fails (the store refuses it, or the file cannot be read), the Undo run  *)
(* has ended with that error, the ledger is as it was when the run         *)
(* started, the row of that id included, and that body is the only one the *)
(* run has touched.                                                        *)
(***************************************************************************)
C16_UndoFailureKeepsLedger ==
    \A p \in Procs :
        Running(p, "undo_last") =>
            /\ \A j \in Positions(p, "execute_err") :
                  /\ log[p] = <<Event("execute_err", cur[p], "reverse")>>
                  /\ pc[p] = "done" /\ result[p] = "StoreError"
                  /\ ledger[table(p)] = led0[p]
                  /\ log[p][j].id \in Ids(ledger[table(p)])
            /\ (pc[p] = "done" /\ result[p] = "IoError" /\ cur[p] # NoFile) =>
                  /\ log[p] = <<>>
                  /\ ledger[table(p)] = led0[p]
                  /\ cur[p].id \in Ids(ledger[table(p)])

C16_Witness ==
    \E p \in Procs :
        /\ Finished(p, "undo_last")
        /\ result[p] = "StoreError"
        /\ Positions(p, "execute_err") # {}
        /\ Cardinality(Ids(led0[p]) \cap ReverseIds(kind(p))) >= 2
        /\ files[p] # <<>>
        /\ ledger[table(p)] = led0[p]

(***************************************************************************)
(* C17. Apply converges: when an Apply run has returned Ok, the id of      *)
(* every forward file of the directory is in the ledger of the kind, the   *)
(* rows the ledger had when the run started are still its first rows, and  *)
(* its ids are those it had at the start together with the ids of the      *)
(* forward files.                                                          *)
(***************************************************************************)
C17_ApplyConverges ==
    \A p \in Procs :
        (Finished(p, "run_pending") /\ result[p] = "ok") =>
            /\ ForwardIds(kind(p)) \subseteq Ids(ledger[table(p)])
            /\ Ids(ledger[table(p)]) = Ids(led0[p]) \cup ForwardIds(kind(p))
            /\ Len(led0[p]) <= Len(ledger[table(p)])
            /\ SubSeq(ledger[table(p)], 1, Len(led0[p])) = led0[p]

C17_Witness ==
    \E p \in Procs :
        /\ Finished(p, "run_pending") /\ result[p] = "ok"
        /\ led0[p] # <<>>
        /\ Cardinality(Positions(p, "mark")) >= 2
        /\ Len(ledger[table(p)]) = Len(led0[p]) + 2
        /\ Ids(ledger[table(p)]) = Ids(led0[p]) \cup ForwardIds(kind(p))

(***************************************************************************)
(* C18. Apply tests a change-set against the snapshot read at the start of *)
(* the run, never against the rows the run has inserted.  When two forward *)
(* files of the directory share an id that the ledger did not hold at the  *)
(* start, a run that is not cut off from outside ends with the duplicate   *)
(* id error of the second insert: the first body was executed and marked,  *)
(* the second body was executed too, its refused insert is the last thing  *)
(* the run did, and the ledger holds one row for the id.                   *)
(***************************************************************************)
\* The pairs of forward file names, in sorting order, that share an id.
SharedIdPool ==
    [k \in Kinds |->
        {fg \in ForwardPool[k] \X ForwardPool[k] :
            str_lt(fg[1], fg[2]) /\ IdOf(fg[1]) = IdOf(fg[2])}]

SharedId(k) == {fg \in SharedIdPool[k] : fg[1] \in dir[k] /\ fg[2] \in dir[k]}

C18_SnapshotOnly ==
    \A p \in Procs :
        Running(p, "run_pending") =>
            /\ \A j \in Executions(p) : ~contains(applied[p], log[p][j].id)
            /\ (pc[p] = "done" /\ ~Outage(p)) =>
               \A fg \in SharedId(kind(p)) :
                  IdOf(fg[1]) \notin Ids(led0[p]) =>
                  /\ result[p] = "DuplicateIdError"
                  /\ Len(log[p]) >= 5
                  /\ log[p][Len(log[p])] = Event("mark_err", cur[p], "")
                  /\ log[p][Len(log[p]) - 1].ev = "execute"
                  /\ log[p][Len(log[p]) - 1].path = fg[2]
                  /\ cur[p].path = fg[2]
                  /\ \E i \in 1..(Len(log[p]) - 4) :
                        /\ log[p][i].ev = "execute" /\ log[p][i].path = fg[1]
                        /\ log[p][i + 1].ev = "mark" /\ log[p][i + 1].path = fg[1]
                  /\ Cardinality(Rows(ledger[table(p)], IdOf(fg[1]))) = 1

C18_Witness ==
    \E p \in Procs :
        /\ Finished(p, "run_pending")
        /\ result[p] = "DuplicateIdError"
        /\ SharedId(kind(p)) # {}
        /\ \E i, j \in Positions(p, "execute") :
              i < j /\ log[p][i].id = log[p][j].id
        /\ \A fg \in SharedId(kind(p)) :
              Cardinality(Rows(ledger[table(p)], IdOf(fg[1]))) = 1

(***************************************************************************)
(* An Undo run followed by an Apply run of the same kind.  Invocation 1 is *)
(* any sequence of migrate and migrate:undo runs, with files arriving in   *)
(* between; once its Undo run has returned Ok, invocation 2 is a migrate   *)
(* run, started while the result of the Undo is still at hand (the history *)
(* of invocation 1 is kept until it exits, which stands for the end of the *)
(* pair).  The directory does not change in between.                       *)
(***************************************************************************)
InitTrip ==
    /\ dir = [k \in Kinds |-> {}]
    /\ ledger = [t \in Tables |-> <<>>]
    /\ POOL = [p \in Runs |-> "unset"]
    /\ pc = [p \in Runs |-> "idle"]
    /\ command = [p \in Runs |-> ""]
    /\ applied = [p \in Runs |-> <<>>]
    /\ files = [p \in Runs |-> <<>>]
    /\ cur = [p \in Runs |-> NoFile]
    /\ result = [p \in Runs |-> "none"]
    /\ local = [p \in Runs |-> "none"]
    /\ log = [p \in Runs |-> <<>>]
    /\ led0 = [p \in Runs |-> <<>>]
    /\ body = [k \in Kinds |-> [f \in ForwardFiles(k) |-> "none"]]
    /\ torn = [k \in Kinds |-> FALSE]

AddMigrationFile == AddFile /\ dir'["seeders"] = dir["seeders"] /\ pc[2] = "idle"

\* main, lines 22 and 24: "migrate" and "migrate:undo"
MainMigrations == Main(1) /\ KindOf(command'[1]) = "migrations" /\ pc[2] = "idle"

UndoReturnedOk == pc[1] = "done" /\ op(1) = "undo_last" /\ result[1] = "ok"

\* main, line 22, right after a migrate:undo that returned Ok.
MainMigrateAfterUndo == UndoReturnedOk /\ MainMigrate(2)

\* Invocation 1 ends while no second invocation is running.
ExitFirst == pc[2] = "idle" /\ Exit(1)

\* The Apply run has ended: both invocations are over.
ExitBoth ==
    /\ pc[2] = "done"
    /\ pc' = [p \in Runs |-> "idle"]
    /\ POOL' = [p \in Runs |-> "unset"]
    /\ command' = [p \in Runs |-> ""]
    /\ applied' = [p \in Runs |-> <<>>]
    /\ files' = [p \in Runs |-> <<>>]
    /\ cur' = [p \in Runs |-> NoFile]
    /\ result' = [p \in Runs |-> "none"]
    /\ log' = [p \in Runs |-> <<>>]
    /\ led0' = [p \in Runs |-> <<>>]
    /\ UNCHANGED <<dir, local, ledger, body, torn>>

NextTrip ==
    \/ AddMigrationFile
    \/ MainMigrations
    \/ MainMigrateAfterUndo
    \/ \E p \in Runs : init_pool(p)
    \/ \E p \in Runs : ensure_migrations_tables(p)
    \/ \E p \in Runs : read_applied(p)
    \/ \E p \in Runs : list_files(p)
    \/ \E p \in Runs : loop(p)
    \/ \E p \in Runs : execute(p)
    \/ \E p \in Runs : mark(p)
    \/ unmark(1)
    \/ \E p \in Runs : Crash(p)
    \/ ExitFirst
    \/ ExitBoth

SpecTrip == InitTrip /\ [][NextTrip]_vars

(***************************************************************************)
(* C20. Undo then Apply restores the ledger.  As claimed: on an unchanged  *)
(* directory in which every ledger id has a forward file, when an Undo run *)
(* and then an Apply run of the same kind have returned Ok, the ledger has *)
(* the ids it had before the Undo, and the Apply run has executed no       *)
(* forward body but that of the change-set the Undo removed.  Stated for   *)
(* the Undo runs that did remove a change-set.                             *)
(***************************************************************************)
Removed == {log[1][j].id : j \in Positions(1, "unmark")}

Reapplied == {log[2][j].id : j \in Executions(2)}

UndoThenApplyOk == UndoReturnedOk /\ pc[2] = "done" /\ result[2] = "ok"

C20_Original ==
    ( /\ UndoThenApplyOk
      /\ Removed # {}
      /\ Ids(led0[1]) \subseteq ForwardIds("migrations") ) =>
        /\ Ids(ledger["_migrations"]) = Ids(led0[1])
        /\ Reapplied \subseteq Removed

\* C20 as amended: the same, when in addition no forward file was pending
\* before the Undo (the ids of the forward files are the ids of the ledger).
\* A forward file that was pending is applied by the Apply run as well.
C20_UndoThenApply ==
    (UndoThenApplyOk /\ Ids(led0[1]) = ForwardIds("migrations")) =>
        /\ Ids(ledger["_migrations"]) = Ids(led0[1])
        /\ Reapplied = Removed
        /\ Cardinality(Executions(2)) = Cardinality(Removed)

C20_Witness ==
    /\ UndoThenApplyOk
    /\ Ids(led0[1]) = ForwardIds("migrations")
    /\ Len(led0[1]) >= 2
    /\ Cardinality(Removed) = 1
    /\ Reapplied = Removed
    /\ Ids(ledger["_migrations"]) = Ids(led0[1])
    /\ ledger["_migrations"] # led0[1]

====
